---- MODULE Spec2Model ----
(***************************************************************************)
(* A model of the simple stock market: the Stock variants and their        *)
(* dividend-yield / PE-ratio formulas (models/stock.py), the Trade         *)
(* validator (models/trade.py) and the StockMarket catalog, ledger and     *)
(* aggregate calculations (stock_market.py).                               *)
(*                                                                         *)
(* Numbers.  Python floats are modelled as exact rationals <<n, d>> with   *)
(* d > 0 in lowest terms; Python ints stay integers.  An Optional value    *)
(* is a sequence of length at most one: <<>> is None, <<x>> is x.          *)
(* Strings that the code inspects character by character (the stock type  *)
(* tag, the ISO timestamp) are sequences of one-character strings.         *)
(***************************************************************************)
EXTENDS Integers, Sequences, FiniteSets, TLC

VARIABLES stocks, trades, now, call, result

vars == <<stocks, trades, now, call, result>>

(***************************************************************************)
(* Bounds of the model.                                                    *)
(***************************************************************************)
MaxTrades == 2

MaxRecords == 2

MaxTime == 20

TickStep == 5

(***************************************************************************)
(* Python values.                                                          *)
(***************************************************************************)
None == <<>>

Some(x) == <<x>>

\* Python truthiness of an Optional int: None and 0 are falsy.
TruthyInt(v) == v # None /\ v[1] # 0

\* Python truthiness of an Optional float: None and 0.0 are falsy.
TruthyNum(v) == v # None /\ v[1][1] # 0

Return(v) == [kind |-> "return", value |-> v]

Raise(e) == [kind |-> "raise", value |-> e]

(***************************************************************************)
(* Exact arithmetic standing for float arithmetic.                         *)
(***************************************************************************)
Abs(x) == IF x < 0 THEN -x ELSE x

RECURSIVE GCD(_, _)
GCD(a, b) == IF b = 0 THEN a ELSE GCD(b, a % b)

Norm(n, d) ==
    LET s == IF d < 0 THEN -1 ELSE 1
        g == GCD(Abs(n), Abs(d))
    IN  <<(s * n) \div g, (s * d) \div g>>

Num(i) == <<i, 1>>

Zero == Num(0)

RAdd(a, b) == Norm(a[1] * b[2] + b[1] * a[2], a[2] * b[2])

RMul(a, b) == Norm(a[1] * b[1], a[2] * b[2])

\* a / b for b # 0
RDiv(a, b) == Norm(a[1] * b[2], a[2] * b[1])

RLeqZero(a) == a[1] <= 0

RECURSIVE RPow(_, _)
RPow(a, k) == IF k = 0 THEN Num(1) ELSE RMul(a, RPow(a, k - 1))

(***************************************************************************)
(* models/stock.py: Stock, CommonStock, PreferredStock.                    *)
(* A stock is a record; fixed_dividend exists on PreferredStock only.      *)
(***************************************************************************)
Stock(symbol, last_dividend, par_value) ==
    [variant |-> "Stock", symbol |-> symbol,
     last_dividend |-> last_dividend, par_value |-> par_value]

CommonStock(symbol, last_dividend, par_value) ==
    [variant |-> "CommonStock", symbol |-> symbol,
     last_dividend |-> last_dividend, par_value |-> par_value]

PreferredStock(symbol, last_dividend, par_value, fixed_dividend) ==
    [variant |-> "PreferredStock", symbol |-> symbol,
     last_dividend |-> last_dividend, par_value |-> par_value,
     fixed_dividend |-> fixed_dividend]

\* Mutant: the guard tests market_price < 0, so a zero price reaches the division.
CommonDividendYieldStrictGuard(self, market_price) ==
    IF market_price[1] < 0
    THEN Raise("ValueError")
    ELSE IF TruthyInt(self.last_dividend)
         THEN IF market_price[1] = 0
              THEN Raise("ZeroDivisionError")
              ELSE Return(RDiv(Num(self.last_dividend[1]), market_price))
         ELSE Return(Zero)

\* CommonStock.calculate_dividend_yield
CommonDividendYield(self, market_price) ==
    IF RLeqZero(market_price)
    THEN Raise("ValueError")
    ELSE IF TruthyInt(self.last_dividend)
         THEN Return(RDiv(Num(self.last_dividend[1]), market_price))
         ELSE Return(Zero)

\* PreferredStock.calculate_dividend_yield
PreferredDividendYield(self, market_price) ==
    IF RLeqZero(market_price) \/ ~TruthyNum(self.fixed_dividend)
    THEN Raise("ValueError")
    ELSE IF self.par_value = None
         THEN Raise("TypeError")      \* float * None
         ELSE Return(RDiv(RMul(self.fixed_dividend[1], Num(self.par_value[1])),
                          market_price))

\* Dynamic dispatch of stock.calculate_dividend_yield(market_price)
CalculateDividendYield(self, market_price) ==
    CASE self.variant = "CommonStock" -> CommonDividendYield(self, market_price)
      [] self.variant = "PreferredStock" -> PreferredDividendYield(self, market_price)
      [] OTHER -> Raise("NotImplementedError")

\* Mutant: no try/except around the yield computation.
CalculatePeRatioPropagates(self, market_price) ==
    LET dividend_yield == CalculateDividendYield(self, market_price)
    IN  IF dividend_yield.kind = "raise"
        THEN dividend_yield
        ELSE IF dividend_yield.value = Zero
             THEN Return(Zero)
             ELSE Return(RDiv(market_price, dividend_yield.value))

\* Stock.calculate_pe_ratio
CalculatePeRatio(self, market_price) ==
    LET dividend_yield == CalculateDividendYield(self, market_price)
    IN  IF dividend_yield.kind = "raise"
        THEN Return(Zero)             \* except Exception: return 0
        ELSE IF dividend_yield.value = Zero
             THEN Return(Zero)
             ELSE Return(RDiv(market_price, dividend_yield.value))

(***************************************************************************)
(* Inputs of the stock formulas.                                           *)
(***************************************************************************)
LastDividends == {None, Some(0), Some(8)}

ParValues == {None, Some(100)}

FixedDividends == {None, Some(Zero), Some(<<1, 50>>)}

MarketPrices == {Num(-1), Zero, Num(1), Num(100), <<1, 2>>}

StockUniverse ==
    {Stock("ABC", ld, pv) : ld \in LastDividends, pv \in ParValues}
    \cup {CommonStock("ABC", ld, pv) : ld \in LastDividends, pv \in ParValues}
    \cup {PreferredStock("XYZ", ld, pv, fd) :
            ld \in LastDividends, pv \in ParValues, fd \in FixedDividends}

(***************************************************************************)
(* StockMarket.__init__, at clock time 0.                                  *)
(***************************************************************************)
Init ==
    /\ stocks = <<>>
    /\ trades = <<>>
    /\ now = 0
    /\ call = [op |-> "__init__"]
    /\ result = Return(None)

(***************************************************************************)
(* The stock formulas applied to every stock and market price.             *)
(***************************************************************************)
DividendYieldCall(stock, market_price) ==
    /\ call' = [op |-> "calculate_dividend_yield", stock |-> stock,
                market_price |-> market_price]
    /\ result' = CalculateDividendYield(stock, market_price)
    /\ UNCHANGED <<stocks, trades, now>>

PeRatioCall(stock, market_price) ==
    /\ call' = [op |-> "calculate_pe_ratio", stock |-> stock,
                market_price |-> market_price]
    /\ result' = CalculatePeRatio(stock, market_price)
    /\ UNCHANGED <<stocks, trades, now>>

NextStock ==
    \E stock \in StockUniverse, market_price \in MarketPrices :
        \/ DividendYieldCall(stock, market_price)
        \/ PeRatioCall(stock, market_price)

SpecStock == Init /\ [][NextStock]_vars

(***************************************************************************)
(* models/common.py: the enumerations.  auto() numbers the members 1, 2.   *)
(***************************************************************************)
COMMON == <<"C", "O", "M", "M", "O", "N">>

PREFERRED == <<"P", "R", "E", "F", "E", "R", "R", "E", "D">>

\* StockType.__members__: name -> value
StockTypeMembers == (COMMON :> 1) @@ (PREFERRED :> 2)

BUY == [name |-> "BUY", value |-> 1]

SELL == [name |-> "SELL", value |-> 2]

TradeType == {BUY, SELL}

(***************************************************************************)
(* str.upper() on the letters the type tags use.                           *)
(***************************************************************************)
LowerCase == <<"a", "b", "c", "d", "e", "f", "g", "h", "i", "j", "k", "l", "m",
               "n", "o", "p", "q", "r", "s", "t", "u", "v", "w", "x", "y", "z">>

UpperCase == <<"A", "B", "C", "D", "E", "F", "G", "H", "I", "J", "K", "L", "M",
               "N", "O", "P", "Q", "R", "S", "T", "U", "V", "W", "X", "Y", "Z">>

UpperChar(c) ==
    IF \E i \in DOMAIN LowerCase : LowerCase[i] = c
    THEN UpperCase[CHOOSE i \in DOMAIN LowerCase : LowerCase[i] = c]
    ELSE c

Upper(str) == [i \in DOMAIN str |-> UpperChar(str[i])]

(***************************************************************************)
(* Dynamically typed values of an input record's 'type' entry.             *)
(***************************************************************************)
PyStr(str) == [t |-> "str", v |-> str]

PyInt(i) == [t |-> "int", i |-> i]

PyNone == [t |-> "NoneType"]

\* dict.get(key): None when the key is missing
DictGet(data, key) == IF key \in DOMAIN data THEN data[key] ELSE PyNone

(***************************************************************************)
(* models/trade.py: Trade and its construction-time validation.            *)
(***************************************************************************)
\* Mutant: the price check is missing.
TradeInitNoPriceCheck(stock, quantity, type, traded_price, timestamp) ==
    IF quantity <= 0
    THEN Raise("ValueError")
    ELSE Return([stock |-> stock, quantity |-> quantity, type |-> type,
                 traded_price |-> traded_price, timestamp |-> timestamp])

\* Mutant: the quantity check is quantity < 0, a trade of nothing is accepted.
TradeInitZeroQuantity(stock, quantity, type, traded_price, timestamp) ==
    IF quantity < 0
    THEN Raise("ValueError")
    ELSE IF RLeqZero(traded_price)
         THEN Raise("ValueError")
         ELSE Return([stock |-> stock, quantity |-> quantity, type |-> type,
                      traded_price |-> traded_price, timestamp |-> timestamp])

\* Trade(stock, quantity, type, traded_price) with timestamp = datetime.now(),
\* followed by __post_init__
TradeInit(stock, quantity, type, traded_price, timestamp) ==
    IF quantity <= 0
    THEN Raise("ValueError")
    ELSE IF RLeqZero(traded_price)
         THEN Raise("ValueError")
         ELSE Return([stock |-> stock, quantity |-> quantity, type |-> type,
                      traded_price |-> traded_price, timestamp |-> timestamp])

(***************************************************************************)
(* stock_market.py: StockMarket.                                           *)
(* stocks is the catalog (a function from the loaded symbols to stocks),   *)
(* trades the ledger, now the wall clock in minutes.  call and result      *)
(* record the operation that produced the state and what it returned or    *)
(* raised.                                                                 *)
(***************************************************************************)
Window == 15

\* Mutant: dict.setdefault, an existing entry is kept.
DictSetDefault(dict, key, value) ==
    [k \in DOMAIN dict \cup {key} |-> IF k \in DOMAIN dict THEN dict[k] ELSE value]

\* self.stocks[symbol] = stock
DictSet(dict, key, value) ==
    [k \in DOMAIN dict \cup {key} |-> IF k = key THEN value ELSE dict[k]]

\* Mutant: the new trade is inserted at the head of the ledger.
RecordTradeOutcomeAtHead(catalog, ledger, clock, stock_symbol, quantity, trade_type, price) ==
    IF stock_symbol \notin DOMAIN catalog
    THEN [trades |-> ledger, outcome |-> Raise("ValueError")]
    ELSE LET trade == TradeInit(catalog[stock_symbol], quantity, trade_type,
                                price, clock)
         IN  IF trade.kind = "raise"
             THEN [trades |-> ledger, outcome |-> trade]
             ELSE [trades |-> <<trade.value>> \o ledger,
                   outcome |-> Return(None)]

\* The outcome of StockMarket.record_trade on a catalog and ledger:
\* the ledger afterwards and what the call returned or raised.
RecordTradeOutcome(catalog, ledger, clock, stock_symbol, quantity, trade_type, price) ==
    IF stock_symbol \notin DOMAIN catalog
    THEN [trades |-> ledger, outcome |-> Raise("ValueError")]
    ELSE LET trade == TradeInit(catalog[stock_symbol], quantity, trade_type,
                                price, clock)
         IN  IF trade.kind = "raise"
             THEN [trades |-> ledger, outcome |-> trade]
             ELSE [trades |-> Append(ledger, trade.value),
                   outcome |-> Return(None)]

\* The type resolution of get_stocks: Some(member value), or None
ResolveStockType(data) ==
    LET type == DictGet(data, "type")
    IN  IF type.t = "str" /\ Upper(type.v) \in DOMAIN StockTypeMembers
        THEN Some(StockTypeMembers[Upper(type.v)])
        ELSE None

\* One iteration of the loop of get_stocks
HydrateOne(catalog, data) ==
    LET stock_type == ResolveStockType(data)
    IN  IF stock_type = None
        THEN [stocks |-> catalog, outcome |-> Raise("ValueError")]
        ELSE IF stock_type = Some(StockTypeMembers[COMMON])
        THEN IF {"symbol", "last_dividend", "par_value"} \subseteq DOMAIN data
             THEN [stocks |-> DictSet(catalog, data.symbol,
                                 CommonStock(data.symbol, data.last_dividend,
                                             data.par_value)),
                   outcome |-> Return(None)]
             ELSE [stocks |-> catalog, outcome |-> Raise("KeyError")]
        ELSE IF {"symbol", "last_dividend", "par_value", "fixed_dividend"}
                    \subseteq DOMAIN data
             THEN [stocks |-> DictSet(catalog, data.symbol,
                                 PreferredStock(data.symbol, data.last_dividend,
                                                data.par_value,
                                                data.fixed_dividend)),
                   outcome |-> Return(None)]
             ELSE [stocks |-> catalog, outcome |-> Raise("KeyError")]

\* Mutant: a failing load restores the catalog it started from.
RECURSIVE GetStocksFromRollsBack(_, _, _)
GetStocksFromRollsBack(catalog, stock_data, i) ==
    IF i > Len(stock_data)
    THEN [stocks |-> catalog, outcome |-> Return(None)]
    ELSE LET step == HydrateOne(catalog, stock_data[i])
             rest == GetStocksFromRollsBack(step.stocks, stock_data, i + 1)
         IN  IF step.outcome.kind = "raise"
             THEN step
             ELSE IF rest.outcome.kind = "raise"
                  THEN [stocks |-> catalog, outcome |-> rest.outcome]
                  ELSE rest

\* The loop of get_stocks from record i on: it stops at the first exception
RECURSIVE GetStocksFrom(_, _, _)
GetStocksFrom(catalog, stock_data, i) ==
    IF i > Len(stock_data)
    THEN [stocks |-> catalog, outcome |-> Return(None)]
    ELSE LET step == HydrateOne(catalog, stock_data[i])
         IN  IF step.outcome.kind = "raise"
             THEN step
             ELSE GetStocksFrom(step.stocks, stock_data, i + 1)

\* The accumulation loop of calculate_volume_weighted_stock_price:
\* acc = <<total_product, total_quantity>>
RECURSIVE VwspLoop(_, _, _, _, _)
VwspLoop(ledger, i, stock_symbol, time_15_minutes_ago, acc) ==
    IF i > Len(ledger)
    THEN acc
    ELSE LET trade == ledger[i]
         IN  IF trade.stock.symbol = stock_symbol
                /\ trade.timestamp > time_15_minutes_ago
             THEN VwspLoop(ledger, i + 1, stock_symbol, time_15_minutes_ago,
                           <<RAdd(acc[1], RMul(trade.traded_price,
                                               Num(trade.quantity))),
                             acc[2] + trade.quantity>>)
             ELSE VwspLoop(ledger, i + 1, stock_symbol, time_15_minutes_ago, acc)

\* Mutant: the window test is >=, a trade stamped at now - 15 minutes counts.
VolumeWeightedStockPriceInclusive(ledger, clock, stock_symbol) ==
    LET time_15_minutes_ago == clock - Window - 1
        acc == VwspLoop(ledger, 1, stock_symbol, time_15_minutes_ago, <<Zero, 0>>)
    IN  IF acc[2] # 0
        THEN Return(RDiv(acc[1], Num(acc[2])))
        ELSE Return(Zero)

\* StockMarket.calculate_volume_weighted_stock_price
VolumeWeightedStockPrice(ledger, clock, stock_symbol) ==
    LET time_15_minutes_ago == clock - Window
        acc == VwspLoop(ledger, 1, stock_symbol, time_15_minutes_ago, <<Zero, 0>>)
    IN  IF acc[2] # 0
        THEN Return(RDiv(acc[1], Num(acc[2])))
        ELSE Return(Zero)

(***************************************************************************)
(* math.log and math.exp, exactly.  A logarithm is kept symbolically:      *)
(* [ln |-> r] is ln(r) for a rational r > 0, so that q * ln(r) = ln(r^q)   *)
(* and ln(a) + ln(b) = ln(a * b).  exp(ln(r) / q) is the q-th root of r,   *)
(* kept as [root |-> q, of |-> r]; the number 0 is [root |-> 1, of |-> 0]. *)
(***************************************************************************)
Log(x) == [ln |-> x]

LogTimes(l, quantity) == [ln |-> RPow(l.ln, quantity)]

LogPlus(a, b) == [ln |-> RMul(a.ln, b.ln)]

LogZero == [ln |-> Num(1)]

ExpOfLogOver(l, total_quantity) == [root |-> total_quantity, of |-> l.ln]

RealZero == [root |-> 1, of |-> Zero]

\* sum(log(trade.traded_price) * trade.quantity for trade in self.trades)
RECURSIVE GbceLogSum(_, _)
GbceLogSum(ledger, i) ==
    IF i = 0
    THEN LogZero
    ELSE LogPlus(GbceLogSum(ledger, i - 1),
                 LogTimes(Log(ledger[i].traded_price), ledger[i].quantity))

\* sum(trade.quantity for trade in self.trades)
RECURSIVE GbceTotalQuantity(_, _)
GbceTotalQuantity(ledger, i) ==
    IF i = 0 THEN 0 ELSE GbceTotalQuantity(ledger, i - 1) + ledger[i].quantity

\* Mutant: the index is taken over the trades of the last 15 minutes only.
GbceAllShareIndexRecent(ledger) ==
    LET recent == SelectSeq(ledger, LAMBDA trade : trade.timestamp > now - Window)
    IN  IF Len(recent) = 0
        THEN Return(RealZero)
        ELSE Return(ExpOfLogOver(GbceLogSum(recent, Len(recent)),
                                 GbceTotalQuantity(recent, Len(recent))))

\* StockMarket.calculate_gbce_all_share_index
GbceAllShareIndex(ledger) ==
    IF Len(ledger) = 0
    THEN Return(RealZero)
    ELSE IF \E i \in DOMAIN ledger : RLeqZero(ledger[i].traded_price)
    THEN Return(RealZero)        \* math.log raises ValueError, which is caught
    ELSE LET log_sum == GbceLogSum(ledger, Len(ledger))
             total_quantity == GbceTotalQuantity(ledger, Len(ledger))
         IN  IF total_quantity # 0
             THEN Return(ExpOfLogOver(log_sum, total_quantity))
             ELSE Return(RealZero)

(***************************************************************************)
(* datetime.isoformat(), for the time of day: minute t of the day is       *)
(* written HH:MM.                                                          *)
(***************************************************************************)
Digits == <<"0", "1", "2", "3", "4", "5", "6", "7", "8", "9">>

IsoFormat(t) ==
    LET hour == (t \div 60) % 24
        minute == t % 60
    IN  <<Digits[(hour \div 10) + 1], Digits[(hour % 10) + 1], ":",
          Digits[(minute \div 10) + 1], Digits[(minute % 10) + 1]>>

\* Mutant: the records come out newest first.
TradeDetailsNewestFirst(ledger) ==
    [i \in 1..Len(ledger) |->
        LET trade == ledger[Len(ledger) + 1 - i]
        IN  [symbol |-> trade.stock.symbol,
             quantity |-> trade.quantity,
             type |-> trade.type.name,
             traded_price |-> trade.traded_price,
             timestamp |-> IsoFormat(trade.timestamp)]]

\* StockMarket.get_trade_details
TradeDetails(ledger) ==
    [i \in 1..Len(ledger) |->
        [symbol |-> ledger[i].stock.symbol,
         quantity |-> ledger[i].quantity,
         type |-> ledger[i].type.name,
         traded_price |-> ledger[i].traded_price,
         timestamp |-> IsoFormat(ledger[i].timestamp)]]

(***************************************************************************)
(* Inputs of the market operations.  The records follow the input data     *)
(* format: every field the variant reads is present; a dividend or par     *)
(* value may be null.                                                      *)
(***************************************************************************)
AbcCommon ==
    [symbol |-> "ABC", type |-> PyStr(<<"c", "o", "m", "m", "o", "n">>),
     last_dividend |-> Some(8), par_value |-> Some(100)]

XyzPreferred ==
    [symbol |-> "XYZ",
     type |-> PyStr(<<"P", "r", "e", "f", "e", "r", "r", "e", "d">>),
     last_dividend |-> Some(8), par_value |-> Some(100),
     fixed_dividend |-> Some(<<1, 50>>)]

AbcPreferred ==
    [symbol |-> "ABC",
     type |-> PyStr(<<"P", "R", "E", "F", "E", "R", "R", "E", "D">>),
     last_dividend |-> None, par_value |-> Some(100),
     fixed_dividend |-> Some(Zero)]

DefUnknown ==
    [symbol |-> "DEF", type |-> PyStr(<<"u", "n", "k", "n", "o", "w", "n">>),
     last_dividend |-> Some(10), par_value |-> Some(50)]

XyzNoType ==
    [symbol |-> "XYZ", last_dividend |-> Some(8), par_value |-> Some(100)]

StockData == {AbcCommon, XyzPreferred, AbcPreferred, DefUnknown, XyzNoType}

StockDataLists ==
    UNION {[1..n -> StockData] : n \in 0..MaxRecords}

\* The loads of the trading specification: the listing, and a rejected one.
ListedStockData == {<<AbcCommon, XyzPreferred>>, <<DefUnknown>>}

Symbols == {"ABC", "XYZ", "DEF"}

Order(stock_symbol, quantity, trade_type, price) ==
    [stock_symbol |-> stock_symbol, quantity |-> quantity,
     trade_type |-> trade_type, price |-> price]

\* The record_trade calls of the trading specification
TradeOrders ==
    { Order("ABC", 1, BUY, Num(2)), Order("ABC", 2, SELL, Num(3)),
      Order("ABC", 2, BUY, Num(2)),
      Order("XYZ", 1, SELL, Num(3)), Order("XYZ", 2, BUY, <<5, 2>>),
      Order("DEF", 1, BUY, Num(2)),
      Order("ABC", 0, BUY, Num(2)), Order("XYZ", -1, SELL, Num(3)),
      Order("ABC", 1, SELL, Zero), Order("XYZ", 2, BUY, Num(-2)),
      Order("DEF", 0, SELL, Zero) }

\* The record_trade calls of the loading specification
LoadOrders ==
    { Order("ABC", 1, BUY, Num(2)), Order("DEF", 2, SELL, Num(3)) }

(***************************************************************************)
(* The operations of StockMarket, and the clock.                           *)
(***************************************************************************)
GetStocks(stock_data) ==
    LET done == GetStocksFrom(stocks, stock_data, 1)
    IN  /\ stocks' = done.stocks
        /\ result' = done.outcome
        /\ call' = [op |-> "get_stocks", stock_data |-> stock_data]
        /\ UNCHANGED <<trades, now>>

RecordTrade(stock_symbol, quantity, trade_type, price) ==
    LET done == RecordTradeOutcome(stocks, trades, now, stock_symbol, quantity,
                                   trade_type, price)
    IN  /\ Len(done.trades) <= MaxTrades
        /\ trades' = done.trades
        /\ result' = done.outcome
        /\ call' = [op |-> "record_trade", stock_symbol |-> stock_symbol,
                    quantity |-> quantity, trade_type |-> trade_type,
                    price |-> price]
        /\ UNCHANGED <<stocks, now>>

CalculateVolumeWeightedStockPrice(stock_symbol) ==
    /\ result' = VolumeWeightedStockPrice(trades, now, stock_symbol)
    /\ call' = [op |-> "calculate_volume_weighted_stock_price",
                stock_symbol |-> stock_symbol]
    /\ UNCHANGED <<stocks, trades, now>>

CalculateGbceAllShareIndex ==
    /\ result' = GbceAllShareIndex(trades)
    /\ call' = [op |-> "calculate_gbce_all_share_index"]
    /\ UNCHANGED <<stocks, trades, now>>

GetTradeDetails ==
    /\ result' = Return(TradeDetails(trades))
    /\ call' = [op |-> "get_trade_details"]
    /\ UNCHANGED <<stocks, trades, now>>

\* Wall-clock time passes between two calls.
Tick ==
    /\ now + TickStep <= MaxTime
    /\ now' = now + TickStep
    /\ call' = [op |-> "tick"]
    /\ result' = Return(None)
    /\ UNCHANGED <<stocks, trades>>

RecordOrder(order) ==
    RecordTrade(order.stock_symbol, order.quantity, order.trade_type, order.price)

\* Trading in depth on a listed market.
Next ==
    \/ \E stock_data \in ListedStockData : GetStocks(stock_data)
    \/ \E order \in TradeOrders : RecordOrder(order)
    \/ \E stock_symbol \in Symbols : CalculateVolumeWeightedStockPrice(stock_symbol)
    \/ CalculateGbceAllShareIndex
    \/ GetTradeDetails
    \/ Tick

Spec == Init /\ [][Next]_vars

\* Loading in depth, with a few trades in between.
NextLoad ==
    \/ \E stock_data \in StockDataLists : GetStocks(stock_data)
    \/ \E order \in LoadOrders : RecordOrder(order)

SpecLoad == Init /\ [][NextLoad]_vars

(***************************************************************************)
(* Claims about the stock formulas, checked under SpecStock.               *)
(***************************************************************************)
IsDividendYieldCall(variant) ==
    /\ call.op = "calculate_dividend_yield"
    /\ call.stock.variant = variant

\* value = numerator / market_price, by cross-multiplication
IsQuotient(value, numerator, market_price) ==
    value[1] * numerator[2] * market_price[1]
        = numerator[1] * market_price[2] * value[2]

\* C4: pe_ratio never propagates an error: it returns 0 whenever
\* dividend_yield(market_price) is 0 or raises (market_price <= 0, a Preferred
\* stock with fixed_dividend unset, a Common stock with last_dividend absent),
\* and otherwise returns market_price / dividend_yield(market_price).
C4_PeRatioNeverRaises ==
    call.op = "calculate_pe_ratio" =>
        LET mp == call.market_price
            dy == CalculateDividendYield(call.stock, mp)
        IN  /\ result.kind = "return"
            /\ (dy.kind = "raise" \/ dy.value[1] = 0) => result.value = Zero
            /\ (dy.kind = "return" /\ dy.value[1] # 0) =>
                   /\ result.value[1] # 0
                   /\ IsQuotient(result.value, mp, dy.value)
            /\ mp[1] <= 0 => result.value = Zero
            /\ (call.stock.variant = "PreferredStock"
                  /\ call.stock.fixed_dividend = None) => result.value = Zero
            /\ (call.stock.variant = "CommonStock"
                  /\ call.stock.last_dividend = None) => result.value = Zero

\* A PE ratio of 0 returned because the yield computation raised.
C4_Witness ==
    /\ call.op = "calculate_pe_ratio"
    /\ call.stock.variant = "PreferredStock"
    /\ call.stock.fixed_dividend = None
    /\ call.market_price = Num(100)
    /\ CalculateDividendYield(call.stock, call.market_price) = Raise("ValueError")
    /\ result = Return(Zero)

\* C5: for a Preferred stock dividend_yield raises ValueError when
\* market_price <= 0 or fixed_dividend is unset, and for market_price > 0 with
\* fixed_dividend set to any fraction (zero included) and par_value set it
\* returns (fixed_dividend * par_value) / market_price.
C5_PreferredDividendYield ==
    IsDividendYieldCall("PreferredStock") =>
        LET mp == call.market_price
            fd == call.stock.fixed_dividend
            pv == call.stock.par_value
        IN  /\ (mp[1] <= 0 \/ fd = None) => result = Raise("ValueError")
            /\ (mp[1] > 0 /\ fd # None /\ pv # None) =>
                   /\ result.kind = "return"
                   /\ IsQuotient(result.value, RMul(fd[1], Num(pv[1])), mp)

\* C6: for a Common stock dividend_yield raises ValueError for every
\* market_price <= 0 (whatever last_dividend is), and for market_price > 0
\* returns 0 when last_dividend is absent, last_dividend / market_price otherwise.
C6_CommonDividendYield ==
    IsDividendYieldCall("CommonStock") =>
        LET mp == call.market_price
            ld == call.stock.last_dividend
        IN  /\ mp[1] <= 0 => result = Raise("ValueError")
            /\ (mp[1] > 0 /\ ld = None) => result = Return(Zero)
            /\ (mp[1] > 0 /\ ld # None) =>
                   /\ result.kind = "return"
                   /\ IsQuotient(result.value, Num(ld[1]), mp)

\* last_dividend 8 at market price 100 yields 0.08.
C6_Witness ==
    /\ IsDividendYieldCall("CommonStock")
    /\ call.stock.last_dividend = Some(8)
    /\ call.market_price = Num(100)
    /\ result = Return(<<2, 25>>)

(***************************************************************************)
(* Claims about the market, checked under Spec (trading) and SpecLoad      *)
(* (loading).  A step's call' and result' describe the operation taken;    *)
(* the unprimed variables are the state it was called in.                  *)
(***************************************************************************)
IsPrefix(a, b) ==
    /\ Len(a) <= Len(b)
    /\ \A i \in DOMAIN a : a[i] = b[i]

\* C1: record_trade fails with ValueError whenever the symbol is not a key of
\* the catalog, or quantity <= 0, or price <= 0, and on such a failure the
\* ledger and the catalog are what they were before the call.
C1_RecordTradeRejects ==
    [][(/\ call'.op = "record_trade"
        /\ \/ call'.stock_symbol \notin DOMAIN stocks
           \/ call'.quantity <= 0
           \/ call'.price[1] <= 0)
       => /\ result' = Raise("ValueError")
          /\ trades' = trades
          /\ stocks' = stocks]_vars

\* A known symbol rejected for its price, on a ledger that holds a trade.
C1_Witness ==
    /\ call.op = "record_trade"
    /\ call.stock_symbol \in DOMAIN stocks
    /\ call.quantity > 0
    /\ call.price[1] <= 0
    /\ result = Raise("ValueError")
    /\ Len(trades) > 0

\* C2: the ledger is append-only: every step leaves the old ledger a prefix of
\* the new one, and the only step that changes it is a successful record_trade
\* (symbol in the catalog, quantity > 0, price > 0), which adds exactly one
\* trade with those values at the end and leaves the catalog unchanged.
C2_LedgerAppendOnly ==
    [][/\ IsPrefix(trades, trades')
       /\ trades' # trades =>
            /\ call'.op = "record_trade"
            /\ result' = Return(None)
            /\ call'.stock_symbol \in DOMAIN stocks
            /\ call'.quantity > 0
            /\ call'.price[1] > 0
       /\ (/\ call'.op = "record_trade"
           /\ call'.stock_symbol \in DOMAIN stocks
           /\ call'.quantity > 0
           /\ call'.price[1] > 0)
          => /\ Len(trades') = Len(trades) + 1
             /\ SubSeq(trades', 1, Len(trades)) = trades
             /\ LET trade == trades'[Len(trades')]
                IN  /\ trade.stock.symbol = call'.stock_symbol
                    /\ trade.quantity = call'.quantity
                    /\ trade.type = call'.trade_type
                    /\ trade.traded_price = call'.price
             /\ stocks' = stocks]_vars

\* A second trade recorded behind a different first one.
C2_Witness ==
    /\ call.op = "record_trade"
    /\ result = Return(None)
    /\ Len(trades) = 2
    /\ trades[1].stock.symbol # trades[2].stock.symbol
    /\ trades[2].stock.symbol = call.stock_symbol
    /\ trades[2].quantity = call.quantity

RECURSIVE TotalQuantityOf(_)
TotalQuantityOf(indices) ==
    IF indices = {}
    THEN 0
    ELSE LET i == CHOOSE i \in indices : TRUE
         IN  trades[i].quantity + TotalQuantityOf(indices \ {i})

RECURSIVE TotalValueOf(_)
TotalValueOf(indices) ==
    IF indices = {}
    THEN Zero
    ELSE LET i == CHOOSE i \in indices : TRUE
         IN  RAdd(RMul(trades[i].traded_price, Num(trades[i].quantity)),
                  TotalValueOf(indices \ {i}))

\* The trades of a symbol stamped strictly later than now - 15 minutes
RecentTradesOf(stock_symbol) ==
    {i \in DOMAIN trades : /\ trades[i].stock.symbol = stock_symbol
                           /\ trades[i].timestamp > now - 15}

\* C3: volume_weighted_price(symbol) at clock time now returns
\* sum(price * quantity) / sum(quantity) over exactly the ledger trades of that
\* symbol stamped strictly later than now - 15 minutes, and 0 when there are
\* none (also for a symbol that is not in the catalog); it never raises.
C3_VolumeWeightedPrice ==
    call.op = "calculate_volume_weighted_stock_price" =>
        LET recent == RecentTradesOf(call.stock_symbol)
        IN  /\ result.kind = "return"
            /\ recent = {} => result.value = Zero
            /\ recent # {} =>
                   RMul(result.value, Num(TotalQuantityOf(recent)))
                       = TotalValueOf(recent)

\* A trade stamped exactly at now - 15 minutes is left out, a later one counts.
C3_Witness ==
    /\ call.op = "calculate_volume_weighted_stock_price"
    /\ Len(trades) = 2
    /\ trades[1].stock.symbol = call.stock_symbol
    /\ trades[2].stock.symbol = call.stock_symbol
    /\ trades[1].timestamp = now - 15
    /\ trades[2].timestamp > now - 15
    /\ trades[1].traded_price # trades[2].traded_price
    /\ result = Return(trades[2].traded_price)

RECURSIVE PriceProductOf(_)
PriceProductOf(indices) ==
    IF indices = {}
    THEN Num(1)
    ELSE LET i == CHOOSE i \in indices : TRUE
         IN  RMul(RPow(trades[i].traded_price, trades[i].quantity),
                  PriceProductOf(indices \ {i}))

\* C9: all_share_index() is taken over every trade of the ledger, whatever its
\* timestamp and symbol: 0 on an empty ledger, and otherwise
\* exp(sum(ln(price) * quantity) / sum(quantity)), the sum(quantity)-th root of
\* the product of price^quantity, which is strictly positive; it never raises.
C9_AllShareIndex ==
    call.op = "calculate_gbce_all_share_index" =>
        /\ result.kind = "return"
        /\ trades = <<>> => result.value = RealZero
        /\ trades # <<>> =>
               /\ result.value.root = TotalQuantityOf(DOMAIN trades)
               /\ result.value.root > 0
               /\ result.value.of = PriceProductOf(DOMAIN trades)
               /\ result.value.of[1] > 0

\* The index over two symbols, one trade older than 15 minutes.
C9_Witness ==
    /\ call.op = "calculate_gbce_all_share_index"
    /\ Len(trades) = 2
    /\ trades[1].stock.symbol # trades[2].stock.symbol
    /\ trades[1].timestamp < now - 15
    /\ trades[1].quantity # trades[2].quantity
    /\ result.value.root = trades[1].quantity + trades[2].quantity

DigitValue(c) == CHOOSE d \in 0..9 : Digits[d + 1] = c

\* The minute of the day an HH:MM string names
ParseIso(str) ==
    (10 * DigitValue(str[1]) + DigitValue(str[2])) * 60
        + 10 * DigitValue(str[4]) + DigitValue(str[5])

\* C10: trade_details() returns one record per ledger trade, in ledger order,
\* the i-th with the symbol, quantity, side name BUY/SELL, traded price and
\* timestamp of the i-th trade, and leaves the ledger and the catalog unchanged.
C10_TradeDetails ==
    [][call'.op = "get_trade_details" =>
         /\ result'.kind = "return"
         /\ DOMAIN result'.value = 1..Len(trades)
         /\ \A i \in 1..Len(trades) :
                LET detail == result'.value[i]
                IN  /\ detail.symbol = trades[i].stock.symbol
                    /\ detail.quantity = trades[i].quantity
                    /\ detail.type = (IF trades[i].type = BUY THEN "BUY" ELSE "SELL")
                    /\ detail.traded_price = trades[i].traded_price
                    /\ detail.timestamp[3] = ":"
                    /\ ParseIso(detail.timestamp) = trades[i].timestamp
         /\ trades' = trades
         /\ stocks' = stocks]_vars

\* The details of a ledger of two different trades made at different times.
C10_Witness ==
    /\ call.op = "get_trade_details"
    /\ Len(trades) = 2
    /\ Len(result.value) = 2
    /\ trades[1].stock.symbol # trades[2].stock.symbol
    /\ trades[1].timestamp < trades[2].timestamp
    /\ result.value[1].type = "BUY"
    /\ result.value[2].type = "SELL"
    /\ result.value[2].symbol = trades[2].stock.symbol

\* Two type tags are the same word, letter case aside
SameWord(a, b) ==
    /\ Len(a) = Len(b)
    /\ \A i \in DOMAIN a :
           \/ a[i] = b[i]
           \/ \E k \in DOMAIN LowerCase :
                  {a[i], b[i]} = {LowerCase[k], UpperCase[k]}

HasType(data, name) ==
    /\ "type" \in DOMAIN data
    /\ data.type.t = "str"
    /\ SameWord(data.type.v, name)

HasValidType(data) == HasType(data, COMMON) \/ HasType(data, PREFERRED)

\* stock is what the record describes
IsStockOf(stock, data) ==
    /\ stock.symbol = data.symbol
    /\ stock.last_dividend = data.last_dividend
    /\ stock.par_value = data.par_value
    /\ HasType(data, COMMON) => stock.variant = "CommonStock"
    /\ HasType(data, PREFERRED) =>
           /\ stock.variant = "PreferredStock"
           /\ stock.fixed_dividend = data.fixed_dividend

\* after is before with the first k records applied in order
IsCatalogAfter(before, after, stock_data, k) ==
    LET loaded == {stock_data[j].symbol : j \in 1..k}
    IN  /\ DOMAIN after = DOMAIN before \cup loaded
        /\ \A symbol \in DOMAIN before \ loaded : after[symbol] = before[symbol]
        /\ \A symbol \in loaded :
               LET last == CHOOSE j \in 1..k :
                               /\ stock_data[j].symbol = symbol
                               /\ \A m \in (j + 1)..k : stock_data[m].symbol # symbol
               IN  IsStockOf(after[symbol], stock_data[last])

\* C7: load_stocks processes the records in order and raises ValueError at the
\* first record whose type is missing or is not COMMON/PREFERRED in any letter
\* case: that record's symbol is not added or changed, every record before it
\* has been applied, none after it, and the ledger is unchanged.
C7_LoadStopsAtInvalidType ==
    [][(/\ call'.op = "get_stocks"
        /\ \E i \in DOMAIN call'.stock_data : ~HasValidType(call'.stock_data[i]))
       => LET stock_data == call'.stock_data
              bad == CHOOSE i \in DOMAIN stock_data :
                         /\ ~HasValidType(stock_data[i])
                         /\ \A j \in 1..(i - 1) : HasValidType(stock_data[j])
              symbol == stock_data[bad].symbol
          IN  /\ result' = Raise("ValueError")
              /\ IsCatalogAfter(stocks, stocks', stock_data, bad - 1)
              /\ (\A j \in 1..(bad - 1) : stock_data[j].symbol # symbol) =>
                     /\ symbol \in DOMAIN stocks' <=> symbol \in DOMAIN stocks
                     /\ symbol \in DOMAIN stocks => stocks'[symbol] = stocks[symbol]
              /\ trades' = trades]_vars

\* A load that replaced ABC and then stopped at a record without a type.
C7_Witness ==
    /\ call.op = "get_stocks"
    /\ call.stock_data = <<AbcPreferred, XyzNoType>>
    /\ result = Raise("ValueError")
    /\ DOMAIN stocks = {"ABC"}
    /\ stocks["ABC"].variant = "PreferredStock"
    /\ Len(trades) > 0

\* C8: after a load_stocks call whose records all have a valid type, the
\* catalog maps each loaded symbol to the stock of the last record with that
\* symbol, other symbols keep their entry, and the ledger is unchanged; the
\* catalog's key set never shrinks.
C8_LoadOverwrites ==
    [][/\ DOMAIN stocks \subseteq DOMAIN stocks'
       /\ (/\ call'.op = "get_stocks"
           /\ \A i \in DOMAIN call'.stock_data : HasValidType(call'.stock_data[i]))
          => /\ result' = Return(None)
             /\ IsCatalogAfter(stocks, stocks', call'.stock_data,
                               Len(call'.stock_data))
             /\ trades' = trades]_vars

\* ABC loaded twice in one call over an earlier ABC: the last record stands.
C8_Witness ==
    /\ call.op = "get_stocks"
    /\ call.stock_data = <<AbcPreferred, AbcCommon>>
    /\ result = Return(None)
    /\ DOMAIN stocks = {"ABC", "XYZ"}
    /\ stocks["ABC"].variant = "CommonStock"
    /\ stocks["XYZ"].variant = "PreferredStock"
    /\ Len(trades) > 0
    /\ trades[1].stock.variant = "PreferredStock"

\* C11: in every state reached through load_stocks and record_trade, every
\* trade of the ledger has quantity > 0 and traded_price > 0 and its stock's
\* symbol is a key of the catalog, so the total quantity of a non-empty ledger
\* is positive.
C11_LedgerValid ==
    /\ \A i \in DOMAIN trades :
           /\ trades[i].quantity > 0
           /\ trades[i].traded_price[1] > 0
           /\ trades[i].traded_price[2] > 0
           /\ trades[i].stock.symbol \in DOMAIN stocks
    /\ trades # <<>> => TotalQuantityOf(DOMAIN trades) > 0

\* A full ledger that has just turned away a trade of quantity 0.
C11_Witness ==
    /\ Len(trades) = 2
    /\ call.op = "record_trade"
    /\ call.stock_symbol \in DOMAIN stocks
    /\ call.quantity <= 0
    /\ result = Raise("ValueError")

\* C12: after any sequence of load_stocks and record_trade calls, a load that
\* overwrites a traded symbol included, the stock every trade holds is the
\* stock (variant and parameters) the catalog now maps the trade's symbol to.
C12_TradesHoldCatalogStock ==
    \A i \in DOMAIN trades :
        /\ trades[i].stock.symbol \in DOMAIN stocks
        /\ trades[i].stock = stocks[trades[i].stock.symbol]

====
